---- MODULE Spec2Model ----
(***************************************************************************)
(* A model of one run of src/joplin/joplin.js, the command line client of  *)
(* the Joplin REST API: the credential check at start-up, main()'s         *)
(* dispatch, the handlers of the commands table, the three HTTP helpers    *)
(* (request, uploadFile, downloadFile), the ping probe, and the way the    *)
(* process prints and exits.                                               *)
(* Spec runs it on short command lines with any credential, SpecOptions    *)
(* on list, get and search with lists of options.  SpecRace is a run of    *)
(* one of the browser scripts oldmbp-eval.js and oldmbp-nav.js: the race   *)
(* of the connection against the timer, and the page operations after it.  *)
(*                                                                         *)
(* Text.  A command-line token, an endpoint and a request path are          *)
(* sequences of atoms.  An atom is either one of the characters the code   *)
(* or the URL parser looks at ("-", "?", "#", "&", "=", "/") or a run of   *)
(* other characters written as one word ("title", "id1").  startsWith,     *)
(* slice, template concatenation, URL parsing and the query-string         *)
(* encoding are computed on these sequences.                               *)
(*                                                                         *)
(* JavaScript values.  A value is a record [type, val]: val is the text    *)
(* the value has when it is interpolated into a template string.           *)
(***************************************************************************)
EXTENDS Integers, Sequences, FiniteSets, TLC

(***************************************************************************)
(* Bounds of the model                                                     *)
(***************************************************************************)
\* the longest token list after '<command> <subcommand>'
MaxRest == 3

\* the longest token list after 'ping <token>': ping reads none of them
MaxPingRest == 1

\* the most items (an option with its value, an option alone, a positional
\* token) after the command of an invocation with options
MaxItems == 2

(***************************************************************************)
(* JavaScript values                                                       *)
(***************************************************************************)
Undefined == [type |-> "undefined", val |-> <<"undefined">>]

Str(s) == [type |-> "string", val |-> s]

BoolTrue == [type |-> "boolean", val |-> <<"true">>]

\* if (v): undefined and the empty string are falsy, true and any other
\* string are truthy
Truthy(v) == \/ v.type = "boolean"
             \/ v.type = "string" /\ Len(v.val) > 0

(***************************************************************************)
(* Text helpers                                                            *)
(***************************************************************************)
\* the first position of atom a in s, 0 when absent (String.indexOf + 1)
IndexOf(s, a) ==
  IF \E i \in 1..Len(s) : s[i] = a
  THEN CHOOSE i \in 1..Len(s) : s[i] = a /\ \A j \in 1..(i - 1) : s[j] # a
  ELSE 0

\* s.startsWith('--')
StartsWithDashes(s) == Len(s) >= 2 /\ s[1] = "-" /\ s[2] = "-"

\* s.slice(2)
Slice2(s) == SubSeq(s, 3, Len(s))

RECURSIVE SelectNonOption(_)
\* rest.filter(r => !r.startsWith('--'))
SelectNonOption(ts) ==
  IF ts = <<>> THEN <<>>
  ELSE IF StartsWithDashes(Head(ts)) THEN SelectNonOption(Tail(ts))
       ELSE <<Head(ts)>> \o SelectNonOption(Tail(ts))

(***************************************************************************)
(* parseArgs: the parsed object is [opts, pos]; opts maps an option key    *)
(* (the token without its two dashes) to its value, pos is result._        *)
(***************************************************************************)
EmptyOpts == [k \in {} |-> Undefined]

SetOpt(opts, key, v) ==
  [k \in (DOMAIN opts) \cup {key} |-> IF k = key THEN v ELSE opts[k]]

RECURSIVE ParseFrom(_, _, _)
ParseFrom(args, i, result) ==
  IF i > Len(args) THEN result
  ELSE IF StartsWithDashes(args[i])
       THEN LET key == Slice2(args[i])
                hasNext == /\ i + 1 <= Len(args)
                           /\ Len(args[i + 1]) > 0
                           /\ ~StartsWithDashes(args[i + 1])
            IN IF hasNext
               THEN ParseFrom(args, i + 2,
                      [result EXCEPT !.opts = SetOpt(@, key, Str(args[i + 1]))])
               ELSE ParseFrom(args, i + 1,
                      [result EXCEPT !.opts = SetOpt(@, key, BoolTrue)])
       ELSE ParseFrom(args, i + 1,
              [result EXCEPT !.pos = Append(@, Str(args[i]))])

parseArgs(args) == ParseFrom(args, 1, [opts |-> EmptyOpts, pos |-> <<>>])

\* args.<key> / args['<key>']
Opt(args, key) == IF key \in DOMAIN args.opts THEN args.opts[key] ELSE Undefined

\* args._[i - 1]
Pos(args, i) == IF i <= Len(args.pos) THEN args.pos[i] ELSE Undefined

(***************************************************************************)
(* URL and URLSearchParams                                                 *)
(***************************************************************************)
\* the characters the application/x-www-form-urlencoded serializer escapes
\* ("-" and the characters of a word are left as they are)
Escaped == [c \in {"?", "#", "&", "=", "/"} |->
              CASE c = "?" -> "%3F"
                [] c = "#" -> "%23"
                [] c = "&" -> "%26"
                [] c = "=" -> "%3D"
                [] c = "/" -> "%2F"]

PercentEncode(s) ==
  [i \in 1..Len(s) |-> IF s[i] \in DOMAIN Escaped THEN Escaped[s[i]] ELSE s[i]]

PercentDecode(s) ==
  [i \in 1..Len(s) |->
     IF \E c \in DOMAIN Escaped : Escaped[c] = s[i]
     THEN CHOOSE c \in DOMAIN Escaped : Escaped[c] = s[i]
     ELSE s[i]]

RECURSIVE Split(_, _)
\* s.split(sep)
Split(s, sep) ==
  LET i == IndexOf(s, sep)
  IN IF i = 0 THEN <<s>>
     ELSE <<SubSeq(s, 1, i - 1)>> \o Split(SubSeq(s, i + 1, Len(s)), sep)

RECURSIVE PairsOf(_)
PairsOf(parts) ==
  IF parts = <<>> THEN <<>>
  ELSE LET p == Head(parts)
           e == IndexOf(p, "=")
           pair == IF e = 0
                   THEN [key |-> PercentDecode(p), value |-> <<>>]
                   ELSE [key |-> PercentDecode(SubSeq(p, 1, e - 1)),
                         value |-> PercentDecode(SubSeq(p, e + 1, Len(p)))]
       IN IF p = <<>> THEN PairsOf(Tail(parts))
          ELSE <<pair>> \o PairsOf(Tail(parts))

\* new URLSearchParams(search): the list of (key, value) pairs of a query
\* string given without its leading "?"
ParseQuery(search) == IF search = <<>> THEN <<>> ELSE PairsOf(Split(search, "&"))

RECURSIVE SerializeQuery(_)
\* params.toString()
SerializeQuery(pairs) ==
  IF pairs = <<>> THEN <<>>
  ELSE PercentEncode(Head(pairs).key) \o <<"=">> \o PercentEncode(Head(pairs).value)
       \o (IF Len(pairs) > 1 THEN <<"&">> \o SerializeQuery(Tail(pairs)) ELSE <<>>)

RECURSIVE DropKey(_, _)
DropKey(pairs, key) ==
  IF pairs = <<>> THEN <<>>
  ELSE IF Head(pairs).key = key THEN DropKey(Tail(pairs), key)
       ELSE <<Head(pairs)>> \o DropKey(Tail(pairs), key)

\* a second searchParams.append in place of set: a key already in the
\* endpoint's query is kept beside the new one
ParamsAppend(pairs, key, value) == Append(pairs, [key |-> key, value |-> value])

\* params.set(key, value): the first pair named key takes the value and the
\* other pairs named key are removed; without one the pair is appended
ParamsSet(pairs, key, value) ==
  IF \E i \in 1..Len(pairs) : pairs[i].key = key
  THEN LET f == CHOOSE i \in 1..Len(pairs) :
                  pairs[i].key = key /\ \A j \in 1..(i - 1) : pairs[j].key # key
       IN DropKey(SubSeq(pairs, 1, f - 1), key)
          \o <<[key |-> key, value |-> value]>>
          \o DropKey(SubSeq(pairs, f + 1, Len(pairs)), key)
  ELSE Append(pairs, [key |-> key, value |-> value])

\* new URL(endpoint, BASE_URL) for an endpoint that starts with "/": the
\* fragment starts at the first "#", the query at the first "?" before it
ParseURL(endpoint) ==
  LET h == IndexOf(endpoint, "#")
      noHash == IF h = 0 THEN endpoint ELSE SubSeq(endpoint, 1, h - 1)
      q == IndexOf(noHash, "?")
  IN [pathname |-> IF q = 0 THEN noHash ELSE SubSeq(noHash, 1, q - 1),
      search |-> IF q = 0 THEN <<>> ELSE SubSeq(noHash, q + 1, Len(noHash)),
      hash |-> IF h = 0 THEN <<>> ELSE SubSeq(endpoint, h + 1, Len(endpoint))]

\* url.searchParams.set('token', TOKEN); url.pathname + url.search
TokenPath(endpoint, token) ==
  LET url == ParseURL(endpoint)
      params == ParamsSet(ParseQuery(url.search), <<"token">>, token.val)
  IN url.pathname \o <<"?">> \o SerializeQuery(params)

(***************************************************************************)
(* buildQuery and the commands' own query strings                          *)
(***************************************************************************)
\* if (args.<option>) params.set('<name>', args.<option>), for each
\* (option, name) of spec in turn
RECURSIVE SetEach(_, _, _)
SetEach(params, args, spec) ==
  IF spec = <<>> THEN params
  ELSE LET v == Opt(args, Head(spec)[1])
       IN SetEach(IF Truthy(v) THEN ParamsSet(params, Head(spec)[2], v.val)
                  ELSE params,
                  args, Tail(spec))

CommonOptions ==
  << <<(<<"limit">>), (<<"limit">>)>>,
     <<(<<"page">>), (<<"page">>)>>,
     <<(<<"fields">>), (<<"fields">>)>>,
     <<(<<"order", "-", "by">>), (<<"order_by">>)>>,
     <<(<<"order", "-", "dir">>), (<<"order_dir">>)>>,
     <<(<<"type">>), (<<"type">>)>> >>

\* buildQuery without its tests: every key is set, whether or not the option
\* was given
buildQueryUnguarded(args) ==
  LET all == [i \in 1..Len(CommonOptions) |->
                [key |-> CommonOptions[i][2], value |-> Opt(args, CommonOptions[i][1]).val]]
  IN <<"?">> \o SerializeQuery(all)

buildQuery(args) ==
  LET qs == SerializeQuery(SetEach(<<>>, args, CommonOptions))
  IN IF qs # <<>> THEN <<"?">> \o qs ELSE <<>>

(***************************************************************************)
(* What a handler of the commands table does: it throws, or it calls one   *)
(* of request, uploadFile, downloadFile                                    *)
(***************************************************************************)
NoData == [present |-> FALSE, fields |-> <<>>]

Data(fields) == [present |-> TRUE, fields |-> fields]

PlainMessage(text) == [kind |-> "plain", text |-> text, status |-> 0, raw |-> "", path |-> <<>>]

\* throw new Error(text)
Throw(text) ==
  [kind |-> "throw", message |-> PlainMessage(text), method |-> "", endpoint |-> <<>>,
   data |-> NoData, file |-> Undefined]

\* throw new Error(`File not found: ${filePath}`)
ThrowNotFound(filePath) ==
  [kind |-> "throw",
   message |-> [PlainMessage("File not found: ") EXCEPT !.path = filePath.val],
   method |-> "", endpoint |-> <<>>, data |-> NoData, file |-> Undefined]

\* return request(method, endpoint, data)
Request(method, endpoint, data) ==
  [kind |-> "request", message |-> PlainMessage(""), method |-> method,
   endpoint |-> endpoint, data |-> data, file |-> Undefined]

\* return uploadFile(endpoint, filePath, props)
Upload(endpoint, filePath, props) ==
  [kind |-> "upload", message |-> PlainMessage(""), method |-> "POST",
   endpoint |-> endpoint, data |-> props, file |-> filePath]

\* return downloadFile(endpoint, outputPath)
Download(endpoint, outputPath) ==
  [kind |-> "download", message |-> PlainMessage(""), method |-> "GET",
   endpoint |-> endpoint, data |-> NoData, file |-> outputPath]

\* parseInt(v): the digits a string starts with, NaN otherwise
ParseInt(v) ==
  IF v.type = "string" /\ Len(v.val) > 0 /\ v.val[1] \in {"0", "1", "2"}
  THEN [type |-> "number", val |-> <<v.val[1]>>]
  ELSE [type |-> "number", val |-> <<"NaN">>]

\* if (args[<option>]) data.<field> = args[<option>], for each (option,
\* field) of spec in turn; is_todo goes through parseInt
RECURSIVE CopyFields(_, _)
CopyFields(args, spec) ==
  IF spec = <<>> THEN <<>>
  ELSE LET v == Opt(args, Head(spec)[1])
           name == Head(spec)[2]
       IN (IF Truthy(v)
           THEN <<[name |-> name, value |-> IF name = "is_todo" THEN ParseInt(v) ELSE v]>>
           ELSE <<>>)
          \o CopyFields(args, Tail(spec))

HasField(fields, name) == \E i \in 1..Len(fields) : fields[i].name = name

\* `/${collection}`
Root(collection) == <<"/">> \o collection

\* `/${collection}/${id}`
Item(collection, id) == <<"/">> \o collection \o <<"/">> \o id.val

\* `/${collection}/${id}/${sub}`
SubResource(collection, id, sub) == Item(collection, id) \o <<"/">> \o sub

\* const id = args._[0]; if (!id) throw ...; return request('GET', <endpoint>)
GetById(args, noun, endpoint) ==
  IF ~Truthy(Pos(args, 1)) THEN Throw(noun) ELSE Request("GET", endpoint, NoData)

\* args.permanent ? '?permanent=1' : ''
PermanentQuery(args) ==
  IF Truthy(Opt(args, <<"permanent">>)) THEN <<"?", "permanent", "=", "1">> ELSE <<>>

notesCreateFields ==
  << <<(<<"title">>), "title">>, <<(<<"body">>), "body">>,
     <<(<<"body", "-", "html">>), "body_html">>,
     <<(<<"parent", "-", "id">>), "parent_id">>,
     <<(<<"is", "-", "todo">>), "is_todo">>,
     <<(<<"source", "-", "url">>), "source_url">> >>

notesUpdateFields ==
  << <<(<<"title">>), "title">>, <<(<<"body">>), "body">>,
     <<(<<"parent", "-", "id">>), "parent_id">>,
     <<(<<"is", "-", "todo">>), "is_todo">> >>

foldersFields == << <<(<<"title">>), "title">>, <<(<<"parent", "-", "id">>), "parent_id">> >>

tagsFields == << <<(<<"title">>), "title">> >>

\* create: const data = {...}; if (!data.title) throw ...; return request('POST', ...)
Create(args, collection, spec) ==
  LET data == CopyFields(args, spec)
  IN IF ~HasField(data, "title") THEN Throw("--title is required")
     ELSE Request("POST", Root(collection), Data(data))

\* update: const id = args._[0]; if (!id) throw ...; return request('PUT', ...)
Update(args, collection, noun, spec) ==
  IF ~Truthy(Pos(args, 1)) THEN Throw(noun)
  ELSE Request("PUT", Item(collection, Pos(args, 1)), Data(CopyFields(args, spec)))

notes == <<"notes">>
folders == <<"folders">>
tags == <<"tags">>
resources == <<"resources">>
events == <<"events">>
revisions == <<"revisions">>
search == <<"search">>
ping == <<"ping">>

commands_notes(sub, args) ==
  LET id == Pos(args, 1)
      noun == "Note ID required"
  IN CASE sub = <<"list">> -> Request("GET", Root(notes) \o buildQuery(args), NoData)
       [] sub = <<"get">> -> GetById(args, noun, Item(notes, id) \o buildQuery(args))
       [] sub = <<"create">> -> Create(args, notes, notesCreateFields)
       [] sub = <<"update">> -> Update(args, notes, noun, notesUpdateFields)
       [] sub = <<"delete">> ->
            IF ~Truthy(id) THEN Throw(noun)
            ELSE Request("DELETE", Item(notes, id) \o PermanentQuery(args), NoData)
       [] sub = <<"tags">> ->
            GetById(args, noun, SubResource(notes, id, tags) \o buildQuery(args))
       [] sub = <<"resources">> ->
            GetById(args, noun, SubResource(notes, id, resources) \o buildQuery(args))

commands_folders(sub, args) ==
  LET id == Pos(args, 1)
      noun == "Folder ID required"
  IN CASE sub = <<"list">> -> Request("GET", Root(folders) \o buildQuery(args), NoData)
       [] sub = <<"get">> -> GetById(args, noun, Item(folders, id) \o buildQuery(args))
       [] sub = <<"create">> -> Create(args, folders, foldersFields)
       [] sub = <<"update">> -> Update(args, folders, noun, foldersFields)
       [] sub = <<"delete">> ->
            IF ~Truthy(id) THEN Throw(noun)
            ELSE Request("DELETE", Item(folders, id) \o PermanentQuery(args), NoData)
       [] sub = <<"notes">> ->
            GetById(args, noun, SubResource(folders, id, notes) \o buildQuery(args))

commands_tags(sub, args) ==
  LET id == Pos(args, 1)
      noteId == Pos(args, 2)
      noun == "Tag ID required"
      both == "Tag ID and Note ID required"
  IN CASE sub = <<"list">> -> Request("GET", Root(tags) \o buildQuery(args), NoData)
       [] sub = <<"get">> -> GetById(args, noun, Item(tags, id) \o buildQuery(args))
       [] sub = <<"create">> -> Create(args, tags, tagsFields)
       [] sub = <<"update">> -> Update(args, tags, noun, tagsFields)
       [] sub = <<"delete">> ->
            IF ~Truthy(id) THEN Throw(noun)
            ELSE Request("DELETE", Item(tags, id), NoData)
       [] sub = <<"notes">> ->
            GetById(args, noun, SubResource(tags, id, notes) \o buildQuery(args))
       [] sub = <<"add", "-", "note">> ->
            IF ~Truthy(id) \/ ~Truthy(noteId) THEN Throw(both)
            ELSE Request("POST", SubResource(tags, id, notes),
                         Data(<<[name |-> "id", value |-> noteId]>>))
       [] sub = <<"remove", "-", "note">> ->
            IF ~Truthy(id) \/ ~Truthy(noteId) THEN Throw(both)
            ELSE Request("DELETE", SubResource(tags, id, notes) \o <<"/">> \o noteId.val,
                         NoData)

\* fileExists: what fs.existsSync(filePath) answers
commands_resources(sub, args, fileExists) ==
  LET id == Pos(args, 1)
      noun == "Resource ID required"
      output == IF Truthy(Opt(args, <<"output">>)) THEN Opt(args, <<"output">>)
                ELSE Pos(args, 2)
  IN CASE sub = <<"list">> -> Request("GET", Root(resources) \o buildQuery(args), NoData)
       [] sub = <<"get">> -> GetById(args, noun, Item(resources, id) \o buildQuery(args))
       [] sub = <<"download">> ->
            IF ~Truthy(id) THEN Throw(noun)
            ELSE IF ~Truthy(output) THEN Throw("--output path required")
            ELSE Download(SubResource(resources, id, <<"file">>), output)
       [] sub = <<"upload">> ->
            IF ~Truthy(id) THEN Throw("File path required")
            ELSE IF ~fileExists THEN ThrowNotFound(id)
            ELSE Upload(Root(resources), id,
                        Data(CopyFields(args, << <<(<<"title">>), "title">> >>)))
       [] sub = <<"delete">> ->
            IF ~Truthy(id) THEN Throw(noun)
            ELSE Request("DELETE", Item(resources, id), NoData)
       [] sub = <<"notes">> ->
            GetById(args, noun, SubResource(resources, id, notes) \o buildQuery(args))

commands_search(args) ==
  LET query == Pos(args, 1)
      params == SetEach(<<[key |-> <<"query">>, value |-> query.val]>>, args,
                        << <<(<<"limit">>), (<<"limit">>)>>,
                           <<(<<"page">>), (<<"page">>)>>,
                           <<(<<"fields">>), (<<"fields">>)>>,
                           <<(<<"type">>), (<<"type">>)>> >>)
  IN IF ~Truthy(query) THEN Throw("Search query required")
     ELSE Request("GET", <<"/", "search", "?">> \o SerializeQuery(params), NoData)

commands_events(sub, args) ==
  LET qs == SerializeQuery(SetEach(<<>>, args,
                                   << <<(<<"cursor">>), (<<"cursor">>)>>,
                                      <<(<<"limit">>), (<<"limit">>)>> >>))
  IN CASE sub = <<"list">> ->
            Request("GET", Root(events) \o (IF qs # <<>> THEN <<"?">> \o qs ELSE <<>>),
                    NoData)
       [] sub = <<"get">> -> GetById(args, "Event ID required", Item(events, Pos(args, 1)))

commands_revisions(sub, args) ==
  CASE sub = <<"list">> -> Request("GET", Root(revisions) \o buildQuery(args), NoData)
    [] sub = <<"get">> ->
         GetById(args, "Revision ID required",
                 Item(revisions, Pos(args, 1)) \o buildQuery(args))

(***************************************************************************)
(* The commands table as main() looks it up: commands[cmd] and             *)
(* cmdGroup[subcmd] find the table's own keys and, as for any JavaScript   *)
(* object literal, the properties inherited from Object.prototype          *)
(***************************************************************************)
Collections == {notes, folders, tags, resources, events, revisions}

OwnKeys(cmd) ==
  CASE cmd = notes -> {<<"list">>, <<"get">>, <<"create">>, <<"update">>, <<"delete">>,
                       <<"tags">>, <<"resources">>}
    [] cmd = folders -> {<<"list">>, <<"get">>, <<"create">>, <<"update">>, <<"delete">>,
                         <<"notes">>}
    [] cmd = tags -> {<<"list">>, <<"get">>, <<"create">>, <<"update">>, <<"delete">>,
                      <<"notes">>, <<"add", "-", "note">>, <<"remove", "-", "note">>}
    [] cmd = resources -> {<<"list">>, <<"get">>, <<"download">>, <<"upload">>,
                           <<"delete">>, <<"notes">>}
    [] cmd = events -> {<<"list">>, <<"get">>}
    [] cmd = revisions -> {<<"list">>, <<"get">>}
    [] OTHER -> {}

\* the functions every object inherits (those the model's inputs can name)
InheritedFunctions ==
  {<<"constructor">>, <<"toString">>, <<"valueOf">>, <<"hasOwnProperty">>}

Proto == <<"__proto__">>

\* typeof commands[cmd], with "group" for the six nested tables
CommandKind(cmd) ==
  CASE cmd \in Collections -> "group"
    [] cmd \in {ping, search} -> "function"
    [] cmd \in InheritedFunctions -> "function"
    [] cmd = Proto -> "prototype"
    [] OTHER -> "undefined"

\* what cmdGroup[subcmd] is, for cmdGroup = commands[cmd] an object
MemberKind(cmd, sub) ==
  CASE cmd \in Collections /\ sub \in OwnKeys(cmd) -> "handler"
    [] sub \in InheritedFunctions -> "inherited"
    [] cmd \in Collections /\ sub = Proto -> "prototype"
    [] OTHER -> "undefined"

\* the call of an inherited function with the parsed arguments: as a plain
\* function (this undefined) or as a method of the group
InheritedCall(name, asMethod, parsedArgs) ==
  CASE name = <<"constructor">> ->
         [throws |-> FALSE, value |-> [shape |-> "parsedArgs", args |-> parsedArgs]]
    [] name = <<"toString">> ->
         [throws |-> FALSE,
          value |-> [shape |-> "string",
                     text |-> IF asMethod THEN "[object Object]" ELSE "[object Undefined]"]]
    [] name = <<"valueOf">> ->
         [throws |-> ~asMethod, value |-> [shape |-> "group"]]
    [] name = <<"hasOwnProperty">> ->
         [throws |-> ~asMethod, value |-> [shape |-> "false"]]

\* the handler commands[cmd][sub]
Handler(cmd, sub, args, fileExists) ==
  CASE cmd = notes -> commands_notes(sub, args)
    [] cmd = folders -> commands_folders(sub, args)
    [] cmd = tags -> commands_tags(sub, args)
    [] cmd = resources -> commands_resources(sub, args, fileExists)
    [] cmd = events -> commands_events(sub, args)
    [] cmd = revisions -> commands_revisions(sub, args)

(***************************************************************************)
(* Responses                                                               *)
(***************************************************************************)
Statuses == {200, 399, 400}

PingLiteral == "JoplinClipperServer"

Bodies == {"", "{\"error\":\"boom\"}", "{\"id\":\"abc123\"}", "null", PingLiteral}

\* JSON.parse(body) on the bodies of the model: ok is FALSE when it throws
JSONParse(body) ==
  CASE body = "{\"error\":\"boom\"}" -> [ok |-> TRUE, type |-> "object", error |-> "boom"]
    [] body = "{\"id\":\"abc123\"}" -> [ok |-> TRUE, type |-> "object", error |-> ""]
    [] body = "null" -> [ok |-> TRUE, type |-> "null", error |-> ""]
    [] OTHER -> [ok |-> FALSE, type |-> "", error |-> ""]

HttpMessage(status) ==
  [kind |-> "http", text |-> "HTTP ", status |-> status, raw |-> "", path |-> <<>>]

HttpRawMessage(status, body) ==
  [kind |-> "httpRaw", text |-> "HTTP ", status |-> status, raw |-> body, path |-> <<>>]

\* the message of the Error that request and uploadFile reject with:
\* err.error || `HTTP ${status}`, and `HTTP ${status}: ${body}` when
\* JSON.parse or the read of err.error throws
RejectMessage(status, body) ==
  LET err == JSONParse(body)
  IN IF err.ok /\ err.type # "null"
     THEN IF err.error # "" THEN PlainMessage(err.error) ELSE HttpMessage(status)
     ELSE HttpRawMessage(status, body)

\* the comparison written with > in place of >=
IsErrorAbove(status) == status > 400

\* res.statusCode >= 400
IsError(status) == status >= 400

\* request without its test for an empty body: JSON.parse('') throws and the
\* raw (empty) string is resolved
RequestResolveUnguarded(body) ==
  IF JSONParse(body).ok THEN [shape |-> "json", text |-> body]
  ELSE [shape |-> "raw", text |-> body]

\* request: resolve(body ? JSON.parse(body) : {}), resolve(body) when it throws
RequestResolve(body) ==
  IF body = "" THEN [shape |-> "emptyObject", text |-> ""]
  ELSE IF JSONParse(body).ok THEN [shape |-> "json", text |-> body]
  ELSE [shape |-> "raw", text |-> body]

\* uploadFile: resolve(JSON.parse(responseBody)), resolve(responseBody) when
\* it throws
UploadResolve(body) ==
  IF JSONParse(body).ok THEN [shape |-> "json", text |-> body]
  ELSE [shape |-> "raw", text |-> body]

\* ping accepting any body that is not empty
PingResultAnyBody(body) ==
  IF body # ""
  THEN [shape |-> "ping", status |-> "ok", message |-> "Joplin service is running"]
  ELSE [shape |-> "ping", status |-> "error", message |-> "Unexpected response"]

\* ping: body === 'JoplinClipperServer'
PingResult(body) ==
  IF body = PingLiteral
  THEN [shape |-> "ping", status |-> "ok", message |-> "Joplin service is running"]
  ELSE [shape |-> "ping", status |-> "error", message |-> "Unexpected response"]

PingUnreachable ==
  [shape |-> "ping", status |-> "error", message |-> "Joplin service is not running"]

(***************************************************************************)
(* The process                                                             *)
(***************************************************************************)
VARIABLES
  TOKEN,      \* process.env.JOPLIN_TOKEN
  argv,       \* process.argv.slice(2)
  pc,         \* "start", "main", "waiting", "piping", "exited"
  call,       \* the pending call of request, uploadFile, downloadFile or ping
  requests,   \* the HTTP requests sent so far, in order
  stdout,     \* what console.log printed
  stderr,     \* what console.error, or the runtime, printed
  exitCode,   \* the exit status, Running before the process ends
  ran,        \* what main() executed: "none", "ping", "search", "handler", "inherited"
  files,      \* the paths opened for writing
  response,   \* how the request ended: a response, or a connection error
  disk,       \* the paths at which the file system has an entry
  fsOps       \* the calls of fs.existsSync and fs.readFileSync so far, in order

(* The state of a run of a browser script (oldmbp-eval.js, oldmbp-nav.js); *)
(* a run of joplin.js leaves it as it is                                   *)
VARIABLES
  script,     \* which script runs and what it is started with
  spc,        \* the script's position
  connect,    \* the promise of puppeteer.connect: "pending", "resolved", "rejected"
  timer,      \* the 5 s timer: "unset", "armed", "fired"
  race,       \* the promise of Promise.race: "pending", "fulfilled", "rejected"
  jobs,       \* the promise jobs (microtasks) that are queued, in order
  settled,    \* the inputs of the race that have settled, in order
  pageOps,    \* the operations on the browser that were performed, in order
  printed,    \* what the script printed, in order
  sexit       \* the script's exit status, Running before it ends

browserVars ==
  <<script, spc, connect, timer, race, jobs, settled, pageOps, printed, sexit>>

vars ==
  <<TOKEN, argv, pc, call, requests, stdout, stderr, exitCode, ran, files, response,
    disk, fsOps, browserVars>>

Running == -1

NoCall == [kind |-> "none"]

NoResponse == [kind |-> "none", status |-> 0, body |-> ""]

Response(status, body) == [kind |-> "response", status |-> status, body |-> body]

ConnectionError == [kind |-> "error", status |-> 0, body |-> ""]

\* the tokens of the model
id1 == <<"id1">>
n1 == <<"n1">>
optTitle == <<"-", "-", "title">>
optFields == <<"-", "-", "fields">>
optOutput == <<"-", "-", "output">>
injected == <<"x", "?", "token", "=", "y", "#", "z">>

CommandTokens ==
  Collections \cup {ping, search, <<"constructor">>, id1}

SubcommandTokens ==
  UNION {OwnKeys(c) : c \in Collections} \cup {<<"constructor">>, id1, optFields}

RestTokens == {id1, n1, optTitle, optFields, optOutput, injected}

RestLists(n) == UNION {[1..k -> RestTokens] : k \in 0..n}

Argvs ==
  {<<>>} \cup {<<c>> : c \in CommandTokens}
  \cup {<<c, s>> \o r : c \in CommandTokens \ {ping}, s \in SubcommandTokens,
                         r \in RestLists(MaxRest)}
  \cup {<<ping, s>> \o r : s \in SubcommandTokens, r \in RestLists(MaxPingRest)}

Credentials == {Undefined, Str(<<>>), Str(<<"secret">>)}

\* the paths the file system may have an entry at
Paths == {id1, n1}

\* the file systems a run is started on: only 'resources upload' looks at
\* the file system (fs.existsSync, fs.readFileSync)
Disks(args) ==
  IF Len(args) >= 2 /\ args[1] = resources /\ args[2] = <<"upload">>
  THEN SUBSET Paths ELSE {{}}

\* no browser script runs
NoScript ==
  /\ script = [name |-> "none", hasArg |-> FALSE, newTab |-> FALSE, reload |-> FALSE,
               hasPage |-> FALSE]
  /\ spc = "none"
  /\ connect = "pending"
  /\ timer = "unset"
  /\ race = "pending"
  /\ jobs = <<>>
  /\ settled = <<>>
  /\ pageOps = <<>>
  /\ printed = <<>>
  /\ sexit = Running

Init ==
  /\ NoScript
  /\ TOKEN \in Credentials
  /\ argv \in Argvs
  /\ disk \in Disks(argv)
  /\ fsOps = <<>>
  /\ pc = "start"
  /\ call = NoCall
  /\ requests = <<>>
  /\ stdout = <<>>
  /\ stderr = <<>>
  /\ exitCode = Running
  /\ ran = "none"
  /\ files = {}
  /\ response = NoResponse

\* const [cmd, subcmd, ...rest] = args
Arg(i) == IF i <= Len(argv) THEN Str(argv[i]) ELSE Undefined
cmd == Arg(1)
subcmd == Arg(2)
rest == SubSeq(argv, 3, Len(argv))

\* parseArgs(subcmd ? [subcmd, ...rest] : rest)
parsedArgs == parseArgs(IF Truthy(subcmd) THEN <<subcmd.val>> \o rest ELSE rest)

\* a check for an unset credential only: the empty string passes
CredentialUnset(token, first) == token.type = "undefined" /\ first # Str(ping)

\* !TOKEN && process.argv[2] !== 'ping'
CredentialMissing(token, first) == ~Truthy(token) /\ first # Str(ping)

(* lines 8-16: the credential check that runs before main() *)
Start ==
  /\ pc = "start"
  /\ IF CredentialMissing(TOKEN, cmd)
     THEN /\ stderr' = stderr \o <<[kind |-> "credential"], [kind |-> "credentialHint"]>>
          /\ exitCode' = 1
          /\ pc' = "exited"
     ELSE /\ pc' = "main"
          /\ UNCHANGED <<stderr, exitCode>>
  /\ UNCHANGED <<browserVars, TOKEN, disk, fsOps, argv, call, requests, stdout, ran, files,
                 response>>

\* console.log(JSON.stringify(result, null, 2)), after which the process ends
PrintResult(value) ==
  /\ stdout' = Append(stdout, [kind |-> "result", value |-> value])
  /\ exitCode' = 0
  /\ pc' = "exited"
  /\ UNCHANGED stderr

\* catch (e): console.error(JSON.stringify({ error: e.message })); process.exit(1)
Catch(message) ==
  /\ stderr' = Append(stderr, [kind |-> "errorJson", message |-> message])
  /\ exitCode' = 1
  /\ pc' = "exited"
  /\ UNCHANGED stdout

\* an exception thrown in a callback outside any promise: the runtime prints
\* it and ends the process with status 1
Crash ==
  /\ stderr' = Append(stderr, [kind |-> "uncaught"])
  /\ exitCode' = 1
  /\ pc' = "exited"
  /\ UNCHANGED stdout

\* the Error fs.readFileSync throws
ReadError == PlainMessage("EISDIR: illegal operation on a directory, read")

\* the request as request/uploadFile/downloadFile put it on the wire
Wire(c) ==
  [method |-> c.method,
   path |-> TokenPath(c.endpoint, TOKEN),
   contentType |-> CASE c.kind = "upload" -> "multipart/form-data"
                     [] c.kind = "request" /\ c.data.present -> "application/json"
                     [] OTHER -> "",
   body |-> c.data,
   file |-> c.file]

\* ping: http.get(`http://localhost:${PORT}/ping`)
PingWire ==
  [method |-> "GET", path |-> <<"/", "ping">>, contentType |-> "", body |-> NoData,
   file |-> Undefined]

\* the handler returned `outcome`: it threw, or its call sent one request
\* and main() awaits the promise.  uploadFile reads the file first
\* (fs.readFileSync, line 73): when that throws (`readable` is FALSE: the
\* path is a directory, or the file went away after the check), the promise
\* is rejected with the file system's error and nothing is sent
Run(outcome, readable) ==
  IF outcome.kind = "throw"
  THEN /\ Catch(outcome.message)
       /\ UNCHANGED <<call, requests>>
  ELSE IF outcome.kind = "upload" /\ ~readable
  THEN /\ Catch(ReadError)
       /\ UNCHANGED <<call, requests>>
  ELSE /\ requests' = Append(requests, Wire(outcome))
       /\ call' = outcome
       /\ pc' = "waiting"
       /\ UNCHANGED <<stdout, stderr, exitCode>>

\* the file system calls of 'resources upload': fs.existsSync(filePath) once
\* a file path is given (line 369), and fs.readFileSync(filePath) when
\* uploadFile is called (line 73)
UploadFsOps(args, outcome) ==
  (IF Truthy(Pos(args, 1))
   THEN <<[op |-> "existsSync", path |-> Pos(args, 1).val]>> ELSE <<>>)
  \o (IF outcome.kind = "upload"
      THEN <<[op |-> "readFileSync", path |-> outcome.file.val]>> ELSE <<>>)

(* lines 426-438: no arguments, the usage text *)
MainUsage ==
  /\ pc = "main"
  /\ argv = <<>>
  /\ stdout' = Append(stdout, [kind |-> "usage"])
  /\ exitCode' = 0
  /\ pc' = "exited"
  /\ UNCHANGED <<browserVars, TOKEN, disk, fsOps, argv, call, requests, stderr, ran, files,
                 response>>

(* lines 446-447 and 204-225 *)
MainPing ==
  /\ pc = "main"
  /\ argv # <<>>
  /\ cmd = Str(ping)
  /\ ran' = "ping"
  /\ requests' = Append(requests, PingWire)
  /\ call' = [kind |-> "ping"]
  /\ pc' = "waiting"
  /\ UNCHANGED <<browserVars, TOKEN, disk, fsOps, argv, stdout, stderr, exitCode, files, response>>

(* lines 448-450 and 386-395 *)
MainSearch ==
  /\ pc = "main"
  /\ argv # <<>>
  /\ cmd = Str(search)
  /\ ran' = "search"
  /\ Run(commands_search([parsedArgs EXCEPT !.pos = <<subcmd>> \o @]), TRUE)
  /\ UNCHANGED <<browserVars, TOKEN, disk, fsOps, argv, files, response>>

(* lines 451-454: commands[cmd] is a function *)
MainFunction ==
  /\ pc = "main"
  /\ argv # <<>>
  /\ cmd.val \notin {ping, search}
  /\ CommandKind(cmd.val) = "function"
  /\ ran' = "inherited"
  /\ LET r == InheritedCall(cmd.val, FALSE, parsedArgs)
     IN IF r.throws THEN Catch(PlainMessage("TypeError")) ELSE PrintResult(r.value)
  /\ UNCHANGED <<browserVars, TOKEN, disk, fsOps, argv, call, requests, files, response>>

\* what the handler of subcommand sub is given when the tokens after it are
\* ts: parseArgs([subcmd, ...rest]) with
\* parsedArgs._ = rest.filter(r => !r.startsWith('--'))
HandlerArgsOf(sub, ts) ==
  [parseArgs(<<sub>> \o ts) EXCEPT !.pos = [i \in 1..Len(SelectNonOption(ts)) |->
                                              Str(SelectNonOption(ts)[i])]]

\* parsedArgs._ = rest.filter(r => !r.startsWith('--'))
HandlerArgs ==
  [parsedArgs EXCEPT !.pos = [i \in 1..Len(SelectNonOption(rest)) |->
                                Str(SelectNonOption(rest)[i])]]

(* lines 455-457: cmdGroup[subcmd] exists *)
MainHandler ==
  /\ pc = "main"
  /\ argv # <<>>
  /\ cmd.val \notin {ping, search}
  /\ CommandKind(cmd.val) \in {"group", "prototype"}
  /\ MemberKind(cmd.val, subcmd.val) # "undefined"
  /\ LET kind == MemberKind(cmd.val, subcmd.val)
     IN CASE kind = "handler" ->
               /\ ran' = "handler"
               /\ LET outcome == Handler(cmd.val, subcmd.val, HandlerArgs,
                                         Pos(HandlerArgs, 1).val \in disk)
                  IN /\ \E readable \in BOOLEAN : Run(outcome, readable)
                     /\ fsOps' = IF cmd.val = resources /\ subcmd.val = <<"upload">>
                                 THEN fsOps \o UploadFsOps(HandlerArgs, outcome)
                                 ELSE fsOps
          [] kind = "inherited" ->
               /\ ran' = "inherited"
               /\ LET r == InheritedCall(subcmd.val, TRUE, HandlerArgs)
                  IN IF r.throws THEN Catch(PlainMessage("TypeError"))
                     ELSE PrintResult(r.value)
               /\ UNCHANGED <<call, requests, fsOps>>
          [] kind = "prototype" ->
               /\ ran' = "none"
               /\ Catch(PlainMessage("TypeError"))
               /\ UNCHANGED <<call, requests, fsOps>>
  /\ UNCHANGED <<browserVars, TOKEN, disk, argv, files, response>>

(* lines 458-462 *)
MainUnknownSubcommand ==
  /\ pc = "main"
  /\ argv # <<>>
  /\ cmd.val \notin {ping, search}
  /\ CommandKind(cmd.val) \in {"group", "prototype"}
  /\ MemberKind(cmd.val, subcmd.val) = "undefined"
  /\ stderr' = stderr \o <<[kind |-> "unknownSubcommand", cmd |-> cmd, subcmd |-> subcmd],
                           [kind |-> "available", keys |-> OwnKeys(cmd.val)]>>
  /\ exitCode' = 1
  /\ pc' = "exited"
  /\ UNCHANGED <<browserVars, TOKEN, disk, fsOps, argv, call, requests, stdout, ran, files,
                 response>>

(* lines 463-466 *)
MainUnknownCommand ==
  /\ pc = "main"
  /\ argv # <<>>
  /\ cmd.val \notin {ping, search}
  /\ CommandKind(cmd.val) = "undefined"
  /\ stderr' = Append(stderr, [kind |-> "unknownCommand", cmd |-> cmd])
  /\ exitCode' = 1
  /\ pc' = "exited"
  /\ UNCHANGED <<browserVars, TOKEN, disk, fsOps, argv, call, requests, stdout, ran, files,
                 response>>

(***************************************************************************)
(* The responses: the callbacks of http.request and http.get               *)
(***************************************************************************)
\* the Error of the request's 'error' event (connection refused, reset, ...)
TransportMessage == PlainMessage("connect ECONNREFUSED")

(* request, lines 36-55: the response has ended *)
RequestEnd ==
  /\ pc = "waiting"
  /\ call.kind = "request"
  /\ \E status \in Statuses, body \in Bodies :
       /\ response' = Response(status, body)
       /\ IF IsError(status) THEN Catch(RejectMessage(status, body))
          ELSE PrintResult(RequestResolve(body))
  /\ UNCHANGED <<browserVars, TOKEN, disk, fsOps, argv, call, requests, ran, files>>

\* an error handler that sends the request once more before it gives up
RequestErrorRetried ==
  /\ pc = "waiting"
  /\ call.kind = "request"
  /\ IF Len(requests) < 2
     THEN /\ requests' = Append(requests, requests[Len(requests)])
          /\ UNCHANGED <<browserVars, TOKEN, disk, fsOps, argv, pc, call, stdout, stderr,
                         exitCode, ran, files,
                         response>>
     ELSE /\ response' = ConnectionError
          /\ Catch(PlainMessage("connect ECONNREFUSED"))
          /\ UNCHANGED <<browserVars, TOKEN, disk, fsOps, argv, call, requests, ran, files>>

(* request, line 57: req.on('error', reject) *)
RequestError ==
  /\ pc = "waiting"
  /\ call.kind = "request"
  /\ response' = ConnectionError
  /\ Catch(TransportMessage)
  /\ UNCHANGED <<browserVars, TOKEN, disk, fsOps, argv, call, requests, ran, files>>

(* uploadFile, lines 105-124 *)
UploadEnd ==
  /\ pc = "waiting"
  /\ call.kind = "upload"
  /\ \E status \in Statuses, body \in Bodies :
       /\ response' = Response(status, body)
       /\ IF IsError(status) THEN Catch(RejectMessage(status, body))
          ELSE PrintResult(UploadResolve(body))
  /\ UNCHANGED <<browserVars, TOKEN, disk, fsOps, argv, call, requests, ran, files>>

(* uploadFile, line 126 *)
UploadError ==
  /\ pc = "waiting"
  /\ call.kind = "upload"
  /\ response' = ConnectionError
  /\ Catch(TransportMessage)
  /\ UNCHANGED <<browserVars, TOKEN, disk, fsOps, argv, call, requests, ran, files>>

\* downloadFile opening the output file before it looks at the status
DownloadResponseOpenFirst ==
  /\ pc = "waiting"
  /\ call.kind = "download"
  /\ \E status \in Statuses, body \in Bodies :
       /\ response' = Response(status, body)
       /\ IF call.file.type # "string"
          THEN /\ Crash
               /\ UNCHANGED files
          ELSE /\ files' = files \cup {call.file.val}
               /\ IF IsError(status)
                  THEN Catch(HttpRawMessage(status, body))
                  ELSE /\ pc' = "piping"
                       /\ UNCHANGED <<stdout, stderr, exitCode>>
  /\ UNCHANGED <<browserVars, TOKEN, disk, fsOps, argv, call, requests, ran>>

(* downloadFile, lines 152-160: the response's head has arrived; with a     *)
(* status >= 400 the body is read and the promise rejected, otherwise the  *)
(* output file is opened (createWriteStream throws on a path that is not a *)
(* string) and the response piped into it                                  *)
DownloadResponse ==
  /\ pc = "waiting"
  /\ call.kind = "download"
  /\ \E status \in Statuses, body \in Bodies :
       /\ response' = Response(status, body)
       /\ IF IsError(status)
          THEN /\ Catch(HttpRawMessage(status, body))
               /\ UNCHANGED files
          ELSE IF call.file.type # "string"
               THEN /\ Crash
                    /\ UNCHANGED files
               ELSE /\ files' = files \cup {call.file.val}
                    /\ pc' = "piping"
                    /\ UNCHANGED <<stdout, stderr, exitCode>>
  /\ UNCHANGED <<browserVars, TOKEN, disk, fsOps, argv, call, requests, ran>>

(* downloadFile, lines 161-164: file.on('finish') *)
DownloadFinish ==
  /\ pc = "piping"
  /\ PrintResult([shape |-> "download", path |-> call.file.val])
  /\ UNCHANGED <<browserVars, TOKEN, disk, fsOps, argv, call, requests, ran, files, response>>

(* downloadFile, line 165 *)
DownloadError ==
  /\ pc = "waiting"
  /\ call.kind = "download"
  /\ response' = ConnectionError
  /\ Catch(TransportMessage)
  /\ UNCHANGED <<browserVars, TOKEN, disk, fsOps, argv, call, requests, ran, files>>

(* ping, lines 208-217: any response, whatever its status *)
PingEnd ==
  /\ pc = "waiting"
  /\ call.kind = "ping"
  /\ \E status \in Statuses, body \in Bodies :
       /\ response' = Response(status, body)
       /\ PrintResult(PingResult(body))
  /\ UNCHANGED <<browserVars, TOKEN, disk, fsOps, argv, call, requests, ran, files>>

(* ping, lines 218-220 *)
PingError ==
  /\ pc = "waiting"
  /\ call.kind = "ping"
  /\ response' = ConnectionError
  /\ PrintResult(PingUnreachable)
  /\ UNCHANGED <<browserVars, TOKEN, disk, fsOps, argv, call, requests, ran, files>>

Next ==
  \/ Start
  \/ MainUsage
  \/ MainPing
  \/ MainSearch
  \/ MainFunction
  \/ MainHandler
  \/ MainUnknownSubcommand
  \/ MainUnknownCommand
  \/ RequestEnd
  \/ RequestError
  \/ UploadEnd
  \/ UploadError
  \/ DownloadResponse
  \/ DownloadFinish
  \/ DownloadError
  \/ PingEnd
  \/ PingError

Spec == Init /\ [][Next]_vars

(***************************************************************************)
(* Invocations with options: the same process started, with the credential *)
(* set, on a list or get of a collection or on search, followed by up to   *)
(* MaxItems items, or by any subset of the six common options, each with   *)
(* its value, given in the reverse of buildQuery's order                   *)
(***************************************************************************)
optLimit == <<"-", "-", "limit">>
optPage == <<"-", "-", "page">>
optOrderBy == <<"-", "-", "order", "-", "by">>
optOrderDir == <<"-", "-", "order", "-", "dir">>
optType == <<"-", "-", "type">>
optFoo == <<"-", "-", "foo">>

\* the six common options, each with a value, last of buildQuery's first
ValuedOptions ==
  << <<optType, (<<"note">>)>>,
     <<optOrderDir, (<<"DESC">>)>>,
     <<optOrderBy, (<<"title">>)>>,
     <<optFields, (<<"id", "&", "x", "=", "1">>)>>,
     <<optPage, (<<"2">>)>>,
     <<optLimit, (<<"5">>)>> >>

Items ==
  {ValuedOptions[i] : i \in 1..Len(ValuedOptions)}
  \cup {<<optLimit>>, <<optFoo>>, <<optFoo, (<<"bar">>)>>, <<id1>>}

RECURSIVE Flatten(_)
Flatten(items) == IF items = <<>> THEN <<>> ELSE Head(items) \o Flatten(Tail(items))

RECURSIVE Chosen(_, _)
\* the options of ValuedOptions from position i on whose position is in S
Chosen(S, i) ==
  IF i > Len(ValuedOptions) THEN <<>>
  ELSE (IF i \in S THEN ValuedOptions[i] ELSE <<>>) \o Chosen(S, i + 1)

ItemLists ==
  {Flatten(l) : l \in UNION {[1..k -> Items] : k \in 0..MaxItems}}
  \cup {p \o Chosen(S, 1) : p \in {<<>>, <<id1>>}, S \in SUBSET (1..Len(ValuedOptions))}

OptionArgvs ==
  {<<c, s>> \o l : c \in Collections, s \in {<<"list">>, <<"get">>}, l \in ItemLists}
  \cup {<<search>> \o l : l \in ItemLists}

InitOptions ==
  /\ NoScript
  /\ TOKEN = Str(<<"secret">>)
  /\ argv \in OptionArgvs
  /\ disk = {}
  /\ fsOps = <<>>
  /\ pc = "start"
  /\ call = NoCall
  /\ requests = <<>>
  /\ stdout = <<>>
  /\ stderr = <<>>
  /\ exitCode = Running
  /\ ran = "none"
  /\ files = {}
  /\ response = NoResponse

NextOptions ==
  \/ Start
  \/ MainSearch
  \/ MainHandler
  \/ RequestEnd
  \/ RequestError

SpecOptions == InitOptions /\ [][NextOptions]_vars

(***************************************************************************)
(* The browser scripts oldmbp-eval.js and oldmbp-nav.js: the race of the   *)
(* connection against the 5 s timer, and the page operations that follow.  *)
(* A timer callback, the settling of the connection and the completion of  *)
(* a page operation are tasks: one runs only when no promise job is        *)
(* queued.  The reactions of Promise.race and the resumption of the await  *)
(* are promise jobs.                                                       *)
(***************************************************************************)
Scripts ==
  {[name |-> "eval", hasArg |-> a, newTab |-> FALSE, reload |-> FALSE, hasPage |-> h] :
     a \in BOOLEAN, h \in BOOLEAN}
  \cup {[name |-> "nav", hasArg |-> a, newTab |-> n, reload |-> r, hasPage |-> h] :
          a \in BOOLEAN, n \in BOOLEAN, r \in BOOLEAN, h \in BOOLEAN}

InitRace ==
  /\ script \in Scripts
  /\ spc = "start"
  /\ connect = "pending"
  /\ timer = "unset"
  /\ race = "pending"
  /\ jobs = <<>>
  /\ settled = <<>>
  /\ pageOps = <<>>
  /\ printed = <<>>
  /\ sexit = Running
  /\ TOKEN = Undefined
  /\ argv = <<>>
  /\ disk = {}
  /\ fsOps = <<>>
  /\ pc = "exited"
  /\ call = NoCall
  /\ requests = <<>>
  /\ stdout = <<>>
  /\ stderr = <<>>
  /\ exitCode = Running
  /\ ran = "none"
  /\ files = {}
  /\ response = NoResponse

joplinVars ==
  <<TOKEN, argv, pc, call, requests, stdout, stderr, exitCode, ran, files, response,
    disk, fsOps>>

\* the script runs: it has started the race and has not exited
Alive == spc \notin {"none", "start", "exited"}

\* process.exit(1) after console.error(...) or console.log(...) of `lines`
ExitWith(lines) ==
  /\ printed' = printed \o lines
  /\ sexit' = 1
  /\ spc' = "exited"

\* a promise that takes every settlement, the last one winning
SettleLast(current, outcome) == outcome

\* a promise settles once: resolve and reject of a settled promise do nothing
Settle(current, outcome) == IF current = "pending" THEN outcome ELSE current

(* eval lines 5-12, nav lines 61-73: the usage text; eval lines 16-22, nav *)
(* lines 77-83: puppeteer.connect is called, the timer set, the race awaited *)
ScriptStart ==
  /\ spc = "start"
  /\ IF ~script.hasArg
     THEN /\ ExitWith(<<"usage">>)
          /\ UNCHANGED timer
     ELSE /\ timer' = "armed"
          /\ spc' = "racing"
          /\ UNCHANGED <<printed, sexit>>
  /\ UNCHANGED <<script, connect, race, jobs, settled, pageOps, joplinVars>>

(* the promise of puppeteer.connect is resolved with the browser *)
ConnectResolves ==
  /\ Alive
  /\ jobs = <<>>
  /\ connect = "pending"
  /\ connect' = "resolved"
  /\ settled' = Append(settled, "connect resolved")
  /\ jobs' = <<"connect fulfilled">>
  /\ UNCHANGED <<script, spc, timer, race, pageOps, printed, sexit, joplinVars>>

(* the promise of puppeteer.connect is rejected *)
ConnectRejects ==
  /\ Alive
  /\ jobs = <<>>
  /\ connect = "pending"
  /\ connect' = "rejected"
  /\ settled' = Append(settled, "connect rejected")
  /\ jobs' = <<"connect rejected">>
  /\ UNCHANGED <<script, spc, timer, race, pageOps, printed, sexit, joplinVars>>

(* setTimeout(() => reject(new Error("timeout")), 5000) *)
TimerFires ==
  /\ Alive
  /\ jobs = <<>>
  /\ timer = "armed"
  /\ timer' = "fired"
  /\ settled' = Append(settled, "timeout")
  /\ jobs' = <<"timeout rejected">>
  /\ UNCHANGED <<script, spc, connect, race, pageOps, printed, sexit, joplinVars>>

(* Promise.race: the reaction to one of its two promises settles the race, *)
(* and the first settlement resumes the script                             *)
RaceReaction ==
  /\ jobs # <<>>
  /\ Head(jobs) # "resume"
  /\ race' = Settle(race, IF Head(jobs) = "connect fulfilled" THEN "fulfilled"
                          ELSE "rejected")
  /\ jobs' = Tail(jobs) \o (IF race = "pending" THEN <<"resume">> ELSE <<>>)
  /\ UNCHANGED <<script, spc, connect, timer, settled, pageOps, printed, sexit,
                 joplinVars>>

\* the first operation on the browser after the race
FirstOp == IF script.name = "nav" /\ script.newTab THEN "newPage" ELSE "pages"

(* eval lines 22-28, nav lines 83-94: .catch((e) => ...) of a rejected race *)
(* prints and exits; a fulfilled race gives b and the script goes on       *)
Resume ==
  /\ jobs # <<>>
  /\ Head(jobs) = "resume"
  /\ jobs' = Tail(jobs)
  /\ IF race = "rejected"
     THEN ExitWith(<<"Could not connect to browser", "Run: oldmbp-browser.sh start">>)
     ELSE /\ spc' = FirstOp
          /\ UNCHANGED <<printed, sexit>>
  /\ UNCHANGED <<script, connect, timer, race, settled, pageOps, joplinVars>>

PageSteps == {"pages", "newPage", "evaluate", "goto", "reload", "disconnect"}

\* the position after the operation at spc has resolved
AfterOp ==
  CASE spc = "pages" -> IF script.name = "eval" THEN "evaluate" ELSE "goto"
    [] spc = "newPage" -> "goto"
    [] spc = "evaluate" -> "disconnect"
    [] spc = "goto" ->
         IF script.name = "nav" /\ ~script.newTab /\ script.reload THEN "reload"
         ELSE "disconnect"
    [] spc = "reload" -> "disconnect"
    [] spc = "disconnect" -> "finished"

\* what the script prints once the operation at spc has resolved
PrintedAfterOp ==
  CASE spc = "evaluate" -> <<"result">>
    [] spc = "goto" /\ script.newTab -> <<"Opened">>
    [] spc = "goto" /\ ~script.newTab /\ ~script.reload -> <<"Navigated to">>
    [] spc = "reload" -> <<"Navigated to">>
    [] OTHER -> <<>>

(* eval lines 28-55, nav lines 89-102: the awaited operation on the browser *)
(* resolves or rejects.  b.pages() may give no page: eval prints "No       *)
(* active tab" and exits 1 (lines 30-33), nav calls goto on undefined and  *)
(* ends on the uncaught TypeError.  A rejected operation is uncaught too.  *)
PageOp ==
  /\ Alive
  /\ jobs = <<>>
  /\ spc \in PageSteps
  /\ pageOps' = Append(pageOps, spc)
  /\ \E resolves \in BOOLEAN :
       IF ~resolves THEN ExitWith(<<"uncaught">>)
       ELSE IF spc = "pages" /\ ~script.hasPage
       THEN ExitWith(<<IF script.name = "eval" THEN "No active tab found" ELSE "uncaught">>)
       ELSE /\ spc' = AfterOp
            /\ printed' = printed \o PrintedAfterOp
            /\ UNCHANGED sexit
  /\ UNCHANGED <<script, connect, timer, race, jobs, settled, joplinVars>>

(* the script has run to its end and the timer is no longer pending: the   *)
(* process ends with status 0                                              *)
ScriptEnds ==
  /\ spc = "finished"
  /\ jobs = <<>>
  /\ timer # "armed"
  /\ sexit' = 0
  /\ spc' = "exited"
  /\ UNCHANGED <<script, connect, timer, race, jobs, settled, pageOps, printed,
                 joplinVars>>

NextRace ==
  \/ ScriptStart
  \/ ConnectResolves
  \/ ConnectRejects
  \/ TimerFires
  \/ RaceReaction
  \/ Resume
  \/ PageOp
  \/ ScriptEnds

SpecRace == InitRace /\ [][NextRace]_vars

(***************************************************************************)
(* The claims.  What a claim says of the command line is written here from *)
(* the claim's words: which tokens are options, which are option values,   *)
(* which are positional, and the request each subcommand maps to.          *)
(***************************************************************************)
\* token i of ts is the value of the option before it
ClaimConsumed(ts, i) ==
  i > 1 /\ StartsWithDashes(ts[i - 1]) /\ ~StartsWithDashes(ts[i])

RECURSIVE ClaimPositionalFrom(_, _)
ClaimPositionalFrom(ts, i) ==
  IF i > Len(ts) THEN <<>>
  ELSE (IF ~StartsWithDashes(ts[i]) /\ ~ClaimConsumed(ts, i) THEN <<Str(ts[i])>> ELSE <<>>)
       \o ClaimPositionalFrom(ts, i + 1)

\* the tokens that neither start with '--' nor are an option's value, in order
ClaimPositional(ts) == ClaimPositionalFrom(ts, 1)

\* each '--' token mapped to the next token when there is one that does not
\* start with '--', otherwise to true (the last occurrence of a name counts)
ClaimOptions(ts) ==
  LET at == {i \in 1..Len(ts) : StartsWithDashes(ts[i])}
      last(k) == CHOOSE i \in at : Slice2(ts[i]) = k /\ \A j \in at : Slice2(ts[j]) = k => j <= i
  IN [k \in {Slice2(ts[i]) : i \in at} |->
        IF last(k) < Len(ts) /\ ~StartsWithDashes(ts[last(k) + 1])
        THEN Str(ts[last(k) + 1]) ELSE BoolTrue]

ClaimIds == ClaimPositional(rest)

ClaimHasValue(key) ==
  key \in DOMAIN ClaimOptions(rest) /\ ClaimOptions(rest)[key].type = "string"

ByIdSubcommands ==
  {<<"get">>, <<"update">>, <<"delete">>, <<"tags">>, <<"resources">>, <<"notes">>}

NoteLinkSubcommands == {<<"add", "-", "note">>, <<"remove", "-", "note">>}

\* the invocation names a collection and one of its subcommands
ClaimSubcommand == cmd.val \in Collections /\ subcmd.val \in OwnKeys(cmd.val)

\* the subcommand's required arguments are on the command line
ClaimRequiredPresent ==
  LET s == subcmd.val
  IN CASE s = <<"list">> -> TRUE
       [] s \in ByIdSubcommands -> Len(ClaimIds) >= 1
       [] s = <<"create">> -> ClaimHasValue(<<"title">>)
       [] s \in NoteLinkSubcommands -> Len(ClaimIds) >= 2
       [] s = <<"download">> ->
            Len(ClaimIds) >= 1 /\ (ClaimHasValue(<<"output">>) \/ Len(ClaimIds) >= 2)
       [] s = <<"upload">> -> Len(ClaimIds) >= 1

ClaimMethod ==
  LET s == subcmd.val
  IN CASE s \in {<<"create">>, <<"add", "-", "note">>, <<"upload">>} -> "POST"
       [] s = <<"update">> -> "PUT"
       [] s \in {<<"delete">>, <<"remove", "-", "note">>} -> "DELETE"
       [] OTHER -> "GET"

\* the mapping table's path, read as the URL parser reads it
ClaimPathname ==
  LET c == cmd.val
      s == subcmd.val
      one == <<"/">> \o c \o <<"/">> \o ClaimIds[1].val
      path == CASE s \in {<<"list">>, <<"create">>, <<"upload">>} -> <<"/">> \o c
                [] s \in {<<"get">>, <<"update">>, <<"delete">>} -> one
                [] s \in {<<"tags">>, <<"resources">>, <<"notes">>} -> one \o <<"/">> \o s
                [] s = <<"add", "-", "note">> -> one \o <<"/", "notes">>
                [] s = <<"remove", "-", "note">> ->
                     one \o <<"/", "notes", "/">> \o ClaimIds[2].val
                [] s = <<"download">> -> one \o <<"/", "file">>
  IN ParseURL(path).pathname

RecognisedCreateFields ==
  CASE cmd.val = notes -> notesCreateFields
    [] cmd.val = folders -> foldersFields
    [] OTHER -> tagsFields

\* the fields of a create body: the recognised options that were supplied
ClaimCreateBody ==
  {<<RecognisedCreateFields[i][2], ClaimOptions(rest)[RecognisedCreateFields[i][1]]>> :
     i \in {j \in 1..Len(RecognisedCreateFields) :
              RecognisedCreateFields[j][1] \in DOMAIN ClaimOptions(rest)}}

BodyFields(r) == {<<r.body.fields[i].name, r.body.fields[i].value>> :
                    i \in 1..Len(r.body.fields)}

FileNotFound ==
  /\ stderr # <<>>
  /\ stderr[1].kind = "errorJson"
  /\ stderr[1].message.text = "File not found: "

\* C1: a collection subcommand invoked with the credential set and its
\* required arguments present (for upload, with the file there) issues
\* exactly one request, whose method and path are the mapping table's; the
\* body of a create holds exactly the supplied recognised fields, the body of
\* tags add-note is {id: <note>}.
C1_MappingTable ==
  (ran = "handler" /\ ClaimSubcommand /\ ClaimRequiredPresent /\ ~FileNotFound) =>
    /\ Len(requests) = 1
    /\ requests[1].method = ClaimMethod
    /\ ParseURL(requests[1].path).pathname = ClaimPathname
    /\ subcmd.val = <<"create">> => BodyFields(requests[1]) = ClaimCreateBody
    /\ subcmd.val = <<"add", "-", "note">> =>
         BodyFields(requests[1]) = {<<"id", ClaimIds[2]>>}

\* C2: the handler of '<collection> <subcommand>' receives as options each
\* '--' token mapped to its value or to true, and as positional arguments
\* exactly the tokens that neither start with '--' nor are an option's value,
\* in order.
C2_HandlerArguments ==
  (ran = "handler" /\ ClaimSubcommand) =>
    /\ HandlerArgs.opts = ClaimOptions(rest)
    /\ HandlerArgs.pos = ClaimPositional(rest)

\* the required argument of the invoked subcommand (or of search) is missing
ClaimRequiredMissing ==
  \/ ran = "handler" /\ ClaimSubcommand /\ ~ClaimRequiredPresent
  \/ ran = "search" /\ ClaimPositional(SubSeq(argv, 2, Len(argv))) = <<>>

\* C3: a subcommand invoked without its required argument fails with a
\* non-zero exit and issues no HTTP request, whatever options are supplied.
C3_MissingArgumentFails ==
  ClaimRequiredMissing => requests = <<>> /\ pc = "exited" /\ exitCode = 1

KnownCommands == Collections \cup {ping, search}

\* C4: with the credential set, a first token that is not a known command
\* ends in "Unknown command" and a non-zero exit, and a second token that is
\* not a subcommand of the known collection in "Unknown subcommand" with the
\* valid ones and a non-zero exit; no handler runs, no request is sent and
\* nothing is printed as a result.
C4_UnknownRejected ==
  (Truthy(TOKEN) /\ argv # <<>> /\ pc = "exited") =>
    /\ cmd.val \notin KnownCommands =>
         /\ ran = "none" /\ requests = <<>> /\ stdout = <<>>
         /\ exitCode = 1
         /\ stderr = <<[kind |-> "unknownCommand", cmd |-> cmd]>>
    /\ (cmd.val \in Collections /\ subcmd.val \notin OwnKeys(cmd.val)) =>
         /\ ran = "none" /\ requests = <<>> /\ stdout = <<>>
         /\ exitCode = 1
         /\ Len(stderr) = 2
         /\ stderr[1].kind = "unknownSubcommand"
         /\ stderr[2] = [kind |-> "available", keys |-> OwnKeys(cmd.val)]

\* the 'token' parameters a server reads from the path of a request
TokenParams(path) ==
  LET q == ParseQuery(ParseURL(path).search)
  IN {i \in 1..Len(q) : q[i].key = <<"token">>}

\* exactly one parameter named token, and it holds the credential
HasTheToken(path) ==
  LET q == ParseQuery(ParseURL(path).search)
  IN /\ Cardinality(TokenParams(path)) = 1
     /\ \A i \in TokenParams(path) : q[i].value = TOKEN.val

\* C5 as stated: every request the process sends, ping's included, carries
\* exactly one query parameter 'token' whose value is the credential.
C5_EveryRequestHasToken ==
  \A i \in 1..Len(requests) : HasTheToken(requests[i].path)

\* C5 amended: every request of every command other than ping carries exactly
\* one query parameter 'token' whose value is the credential, whatever the
\* identifiers and option values contain; the request of ping carries no
\* query parameter at all.
C5_TokenOnAllButPing ==
  \A i \in 1..Len(requests) :
    IF ran = "ping" THEN ParseURL(requests[i].path).search = <<>>
    ELSE HasTheToken(requests[i].path)

\* a request was sent for an identifier that itself contains '?token='
C5_Witness ==
  /\ ran = "handler"
  /\ Len(requests) = 1
  /\ \E i \in 1..Len(call.endpoint) : call.endpoint[i] = "token"

\* C6: with the credential unset or empty, an invocation whose first token is
\* not 'ping' never reaches main(): it sends no request, runs no command,
\* prints no result and its exit status is 1; an invocation of ping goes on
\* and sends its probe.
C6_MissingCredential ==
  ~Truthy(TOKEN) =>
    IF cmd = Str(ping)
    THEN /\ pc \notin {"start", "main"} => ran = "ping" /\ requests = <<PingWire>>
         /\ pc = "exited" => exitCode = 0
    ELSE /\ pc \in {"start", "exited"}
         /\ ran = "none" /\ requests = <<>> /\ stdout = <<>>
         /\ pc = "exited" => exitCode = 1 /\ stderr[1] = [kind |-> "credential"]

\* the credential is the empty string and a collection command was stopped
C6_Witness ==
  /\ TOKEN = Str(<<>>)
  /\ Len(argv) >= 2 /\ cmd = Str(notes) /\ subcmd = Str(<<"list">>)
  /\ pc = "exited"

ErrorBody == "{\"error\":\"boom\"}"

IdBody == "{\"id\":\"abc123\"}"

\* the bodies of the model that are JSON texts
JsonBodies == {ErrorBody, IdBody, "null"}

\* a response with status >= 400 came back to request, upload or download
ErrorResponded ==
  /\ call.kind \in {"request", "upload", "download"}
  /\ response.kind = "response"
  /\ response.status >= 400

\* the run failed with this message: nothing on standard output, the JSON
\* error object on standard error, exit status 1
FailedWith(message) ==
  /\ pc = "exited"
  /\ exitCode = 1
  /\ stdout = <<>>
  /\ stderr = <<[kind |-> "errorJson", message |-> message]>>

\* C7 as stated: after a response with status >= 400, request, upload and
\* download fail, with the body's 'error' field as the message when the body
\* parses as JSON and 'HTTP <status>: <raw body>' otherwise.
C7_ErrorFieldOrRawBody ==
  ErrorResponded =>
    FailedWith(IF response.body \in JsonBodies
               THEN PlainMessage(IF response.body = ErrorBody THEN "boom" ELSE "")
               ELSE HttpRawMessage(response.status, response.body))

\* C7 amended: after a response with status >= 400, request, upload and
\* download fail (nothing printed as a result, exit status 1).  For request
\* and upload the message is the body's 'error' field when the body parses as
\* JSON and has one, 'HTTP <status>' when it parses as JSON other than null
\* and has none, and 'HTTP <status>: <raw body>' when it does not parse or is
\* null; for download it is always 'HTTP <status>: <raw body>'.
C7_ErrorMessages ==
  ErrorResponded =>
    FailedWith(CASE call.kind = "download" ->
                      HttpRawMessage(response.status, response.body)
                 [] call.kind # "download" /\ response.body = ErrorBody ->
                      PlainMessage("boom")
                 [] call.kind # "download" /\ response.body = IdBody ->
                      HttpMessage(response.status)
                 [] OTHER -> HttpRawMessage(response.status, response.body))

\* a status 400, the least error status, with a JSON body without 'error'
C7_Witness ==
  /\ call.kind = "request"
  /\ response = Response(400, IdBody)
  /\ pc = "exited"

\* C8: after a response with status < 400 the request executor does not
\* fail: the result is an empty object for an empty body, the parsed value
\* for a JSON body and the raw string otherwise; it is printed and the exit
\* status is 0.
C8_SuccessNeverFails ==
  (call.kind = "request" /\ response.kind = "response" /\ response.status < 400) =>
    /\ pc = "exited"
    /\ exitCode = 0
    /\ stderr = <<>>
    /\ stdout = <<[kind |-> "result",
                   value |-> CASE response.body = "" -> [shape |-> "emptyObject", text |-> ""]
                               [] response.body \in JsonBodies ->
                                    [shape |-> "json", text |-> response.body]
                               [] OTHER -> [shape |-> "raw", text |-> response.body]]>>

\* the largest status below 400 with an empty body
C8_Witness ==
  /\ call.kind = "request"
  /\ response = Response(399, "")
  /\ pc = "exited"

\* C9: the process sends at most one HTTP request, whatever the command and
\* however the request ends: once a request is out, no other is sent.
C9_AtMostOneRequest == Len(requests) <= 1

\* a request failed at the connection and the process ended
C9_Witness ==
  /\ call.kind = "request"
  /\ response = ConnectionError
  /\ pc = "exited"
  /\ Len(requests) = 1

\* C10: however its request ends, ping prints a structured result and exits
\* 0; the result's status is 'ok' exactly when there was a response whose
\* body is 'JoplinClipperServer', and 'error' otherwise.  Any other command
\* whose request fails at the connection exits non-zero.
C10_PingNeverFails ==
  /\ (ran = "ping" /\ response.kind # "none") =>
       /\ pc = "exited"
       /\ exitCode = 0
       /\ stderr = <<>>
       /\ Len(stdout) = 1
       /\ stdout[1].kind = "result"
       /\ stdout[1].value.shape = "ping"
       /\ stdout[1].value.status \in {"ok", "error"}
       /\ stdout[1].value.status = "ok" <=>
            (response.kind = "response" /\ response.body = "JoplinClipperServer")
  /\ (ran # "ping" /\ response.kind = "error") =>
       /\ pc = "exited"
       /\ exitCode = 1
       /\ stdout = <<>>

\* ping found the service unreachable
C10_Witness ==
  /\ ran = "ping"
  /\ response = ConnectionError
  /\ pc = "exited"

\* the invocation is 'resources upload ...' and its handler ran
UploadRan == ran = "handler" /\ cmd.val = resources /\ subcmd.val = <<"upload">>

\* C11: in a run of 'resources upload <path>' where no file exists at <path>,
\* the command fails with the file-not-found error and a non-zero exit and no
\* HTTP request is ever issued; when the upload's request is issued, the file
\* was checked (existsSync) and then read (readFileSync) before it.
C11_MissingFileNoRequest ==
  /\ (UploadRan /\ Len(ClaimIds) >= 1 /\ ClaimIds[1].val \notin disk) =>
       /\ requests = <<>>
       /\ pc = "exited"
       /\ exitCode = 1
       /\ FileNotFound
  /\ (call.kind = "upload" /\ requests # <<>>) =>
       fsOps = <<[op |-> "existsSync", path |-> call.file.val],
                 [op |-> "readFileSync", path |-> call.file.val]>>

\* C12: once 'resources download' has received a response with status >= 400
\* no file has been opened for writing and the process has exited non-zero;
\* a file is opened for writing only by a download that has received a
\* response with status < 400, and it is the download's destination.
C12_NoFileOnError ==
  /\ (call.kind = "download" /\ response.kind = "response" /\ response.status >= 400) =>
       /\ files = {}
       /\ pc = "exited"
       /\ exitCode \notin {0, Running}
  /\ files # {} =>
       /\ call.kind = "download"
       /\ response.kind = "response"
       /\ response.status < 400
       /\ files = {call.file.val}

\* a download to a named destination was answered with status 400
C12_Witness ==
  /\ call.kind = "download"
  /\ call.file = Str(<<"id1">>)
  /\ response.kind = "response"
  /\ response.status = 400
  /\ pc = "exited"

(***************************************************************************)
(* The claims about options, checked on SpecOptions                        *)
(***************************************************************************)
\* the options of the claim in its enumeration order, each with its key
ClaimCommon ==
  << <<optLimit, (<<"limit">>)>>, <<optPage, (<<"page">>)>>,
     <<optFields, (<<"fields">>)>>, <<optOrderBy, (<<"order_by">>)>>,
     <<optOrderDir, (<<"order_dir">>)>>, <<optType, (<<"type">>)>> >>

\* option token o is among the tokens ts
ClaimSupplied(ts, o) == \E i \in 1..Len(ts) : ts[i] = o

RECURSIVE ClaimKeysFrom(_, _)
\* the keys of the supplied options of ClaimCommon from position i on
ClaimKeysFrom(ts, i) ==
  IF i > Len(ClaimCommon) THEN <<>>
  ELSE (IF ClaimSupplied(ts, ClaimCommon[i][1]) THEN <<ClaimCommon[i][2]>> ELSE <<>>)
       \o ClaimKeysFrom(ts, i + 1)

\* the keys of a query string, in order
KeysOf(qs) == LET q == ParseQuery(qs) IN [i \in 1..Len(q) |-> q[i].key]

\* a list of a collection that builds its query with buildQuery was requested
BuiltQueryOfList ==
  /\ ran = "handler"
  /\ cmd.val \in Collections \ {events}
  /\ subcmd.val = <<"list">>
  /\ call.kind = "request"

\* what buildQuery returned: the endpoint after `/<collection>`
BuiltQuery == SubSeq(call.endpoint, Len(Root(cmd.val)) + 1, Len(call.endpoint))

\* C13: buildQuery returns the empty string when none of limit, page, fields,
\* order-by, order-dir, type is in the parsed options, and otherwise '?'
\* followed by one key for each of them that is present and for no other, as
\* limit, page, fields, order_by, order_dir, type in that order, whatever
\* the order of the options on the command line.
C13_QueryBuilder ==
  BuiltQueryOfList =>
    IF ClaimKeysFrom(rest, 1) = <<>> THEN BuiltQuery = <<>>
    ELSE /\ BuiltQuery[1] = "?"
         /\ KeysOf(Tail(BuiltQuery)) = ClaimKeysFrom(rest, 1)

\* type, fields and limit were given, in that order
C13_Witness ==
  /\ BuiltQueryOfList
  /\ rest = <<optType, <<"note">>, optFields, <<"id", "&", "x", "=", "1">>, optLimit, <<"5">>>>
  /\ KeysOf(Tail(BuiltQuery)) = <<(<<"limit">>), (<<"fields">>), (<<"type">>)>>

\* the tokens after the operation: after '<collection> <subcommand>', or
\* after 'search'
ClaimTokens == IF cmd.val = search THEN SubSeq(argv, 2, Len(argv)) ELSE rest

\* the parameters of the request sent, as a server reads them, without the
\* credential and without the query of search
SentParams ==
  LET q == ParseQuery(ParseURL(requests[1].path).search)
  IN SelectSeq(q, LAMBDA p : /\ p.key # <<"token">>
                             /\ ~(cmd.val = search /\ p.key = <<"query">>))

\* a list or get of a collection, or a search, sent its request
ListGetOrSearchSent ==
  /\ requests # <<>>
  /\ \/ ran = "search"
     \/ ran = "handler" /\ cmd.val \in Collections /\ subcmd.val \in {<<"list">>, <<"get">>}

\* C14: the request of a list or get of any of the six collections, and of
\* search, has in its query string, besides the credential and the search
\* query, exactly one parameter for each supplied option among limit, page,
\* fields, order-by, order-dir, type, holding the option's value as given,
\* and no other parameter.
C14_SuppliedOptionsSent ==
  ListGetOrSearchSent =>
    /\ {SentParams[i].key : i \in 1..Len(SentParams)}
         = {ClaimKeysFrom(ClaimTokens, 1)[i] : i \in 1..Len(ClaimKeysFrom(ClaimTokens, 1))}
    /\ Len(SentParams) = Len(ClaimKeysFrom(ClaimTokens, 1))
    /\ \A i \in 1..Len(ClaimCommon) :
         LET name == Slice2(ClaimCommon[i][1])
         IN (name \in DOMAIN ClaimOptions(ClaimTokens)
             /\ ClaimOptions(ClaimTokens)[name].type = "string") =>
              \E j \in 1..Len(SentParams) :
                SentParams[j] = [key |-> ClaimCommon[i][2],
                                 value |-> ClaimOptions(ClaimTokens)[name].val]

(***************************************************************************)
(* The claims about how a run ends, checked on Spec                        *)
(***************************************************************************)
\* C15: every invocation that has ended ended in one of two ways: with the
\* result printed as JSON on standard output, nothing on standard error and
\* exit status 0; or with one JSON object with an 'error' field on standard
\* error, nothing on standard output and a non-zero exit status.  The second
\* form is that of every failure: missing credential, unknown command,
\* unknown subcommand, missing argument, file not found, remote error and
\* transport error.
C15_TwoOutcomes ==
  pc = "exited" =>
    \/ /\ exitCode = 0
       /\ Len(stdout) = 1
       /\ stdout[1].kind = "result"
       /\ stderr = <<>>
    \/ /\ exitCode \notin {0, Running}
       /\ stdout = <<>>
       /\ Len(stderr) = 1
       /\ stderr[1].kind = "errorJson"

(***************************************************************************)
(* Unrecognised options and the query of search, checked on SpecOptions    *)
(***************************************************************************)
RECURSIVE ClaimWithout(_, _)
\* the tokens ts without the option o and without the value that follows it
ClaimWithout(ts, o) ==
  IF ts = <<>> THEN <<>>
  ELSE IF Head(ts) = o
       THEN IF Len(ts) >= 2 /\ ~StartsWithDashes(ts[2])
            THEN ClaimWithout(SubSeq(ts, 3, Len(ts)), o)
            ELSE ClaimWithout(Tail(ts), o)
       ELSE <<Head(ts)>> \o ClaimWithout(Tail(ts), o)

\* what the same subcommand does when it is invoked without --foo
WithoutFoo ==
  Handler(cmd.val, subcmd.val, HandlerArgsOf(subcmd.val, ClaimWithout(rest, optFoo)), FALSE)

\* C17: a collection subcommand invoked with the option --foo, which no
\* operation recognises, with or without a value and wherever it stands
\* after the subcommand, sends the request (method, path with its query,
\* body) the invocation without it sends, or fails as it fails.
C17_UnrecognisedIgnored ==
  (ran = "handler" /\ ClaimSubcommand /\ ClaimSupplied(rest, optFoo)) =>
    IF WithoutFoo.kind = "throw"
    THEN /\ requests = <<>>
         /\ pc = "exited"
         /\ stderr = <<[kind |-> "errorJson", message |-> WithoutFoo.message]>>
    ELSE requests = <<Wire(WithoutFoo)>>

\* the value of the parameter 'query' of the request sent, as a server reads it
SentQuery ==
  LET q == ParseQuery(ParseURL(requests[1].path).search)
  IN {q[i].value : i \in {j \in 1..Len(q) : q[j].key = <<"query">>}}

\* C18: a search invocation that has a query token and any of --limit,
\* --page, --fields, --type before or after it sends GET /search with the
\* parameter 'query' equal to the query token, the first token that neither
\* starts with '--' nor is the value of an option; an option name is never
\* sent as the query.
C18_SearchQueryToken ==
  (/\ ran = "search"
   /\ ClaimPositional(ClaimTokens) # <<>>
   /\ \E o \in {optLimit, optPage, optFields, optType} : ClaimSupplied(ClaimTokens, o)) =>
    /\ Len(requests) = 1
    /\ requests[1].method = "GET"
    /\ ParseURL(requests[1].path).pathname = <<"/", "search">>
    /\ SentQuery = {ClaimPositional(ClaimTokens)[1].val}

(***************************************************************************)
(* The response handling of uploadFile against that of request, on Spec    *)
(***************************************************************************)
\* C19: for every status and response body, an upload ends as a plain
\* request ends on the same response: both fail with the same message, or
\* both succeed and print the same value (an empty body and a JSON body
\* without 'error' included).
C19_UploadAsRequest ==
  (call.kind = "upload" /\ response.kind = "response") =>
    IF response.status >= 400
    THEN FailedWith(RejectMessage(response.status, response.body))
    ELSE /\ pc = "exited"
         /\ exitCode = 0
         /\ stderr = <<>>
         /\ stdout = <<[kind |-> "result", value |-> RequestResolve(response.body)]>>

(***************************************************************************)
(* The race of the browser scripts, checked on SpecRace                    *)
(***************************************************************************)
\* the two lines of the connection error
CouldNotConnect == <<"Could not connect to browser", "Run: oldmbp-browser.sh start">>

\* the connection error was printed
ConnectionErrorPrinted ==
  \E i \in 1..Len(printed) : printed[i] = "Could not connect to browser"

\* C16: in both scripts, whichever of the connection and the 5 s timer
\* settles first decides the race.  When the connection resolves first the
\* race is fulfilled, the script goes on to its page operations, and the
\* timer firing later changes nothing: no connection error is printed, and
\* a non-zero exit is that of a page step.  When the timer fires first or
\* the connection rejects first the race is rejected: the script prints the
\* connection error, exits with status 1, and performs no page operation.
C16_FirstSettledDecides ==
  settled # <<>> =>
    /\ jobs = <<>> => race # "pending"
    /\ settled[1] = "connect resolved" =>
         /\ race # "rejected"
         /\ ~ConnectionErrorPrinted
         /\ jobs = <<>> => spc \in PageSteps \cup {"finished", "exited"}
         /\ sexit \in {Running, 0, 1}
         /\ sexit = 1 =>
              printed[Len(printed)] \in {"No active tab found", "uncaught"}
         /\ sexit = 0 => pageOps # <<>> /\ pageOps[Len(pageOps)] = "disconnect"
    /\ settled[1] \in {"timeout", "connect rejected"} =>
         /\ race # "fulfilled"
         /\ pageOps = <<>>
         /\ jobs = <<>> =>
              /\ spc = "exited"
              /\ sexit = 1
              /\ printed = CouldNotConnect

\* the connection resolved first, the timer fired during the page
\* operations, and the script ended with status 0
C16_Witness ==
  /\ settled = <<"connect resolved", "timeout">>
  /\ spc = "exited"
  /\ sexit = 0
  /\ script.name = "nav"
  /\ pageOps = <<"pages", "goto", "reload", "disconnect">>

====
